---- MODULE Spec2Model ----
(***************************************************************************)
(* Session timeline of the MRI noise-masking client.                       *)
(*                                                                         *)
(* The repository holds two variants of one React component:               *)
(*   frontend/app/index.tsx  (device build, expo-av sound object)          *)
(*   frontend/app/web.tsx    (browser build, HTMLAudioElement)             *)
(* Both keep the run's counters (currentTime, sequenceIndex,               *)
(* sequenceStartTime) as locals of startMRISimulation, captured by the     *)
(* setInterval callback, and keep the interval id in the ref               *)
(* progressTimer.  The callback and the stopSession it calls are closures  *)
(* of the render in which the start button was pressed: they read the      *)
(* values `sound`/`audio`, `volume` and `currentSession` had at that       *)
(* press, not the values set later by setSound / setCurrentSession.        *)
(*                                                                         *)
(* Every `await` is a point where the event loop may run another handler,  *)
(* so startSession and stopSession are split at their awaits.  Calls into  *)
(* the audio library and to the backend may fail; which one fails is the   *)
(* environment's choice.                                                   *)
(*                                                                         *)
(* Numbers: volume is kept in hundredths (0.7 is 70); an applied volume    *)
(* is kept in units of 1/(100*120), so min(volume * intensity/120, 1.0)    *)
(* is exact.  duration_minutes is a JS number; it is kept in sixtieths of  *)
(* a minute so that patterns lasting a few seconds can be written down.    *)
(***************************************************************************)
EXTENDS Integers, Sequences, FiniteSets, TLC

\* ---------------------------------------------------------------- bounds
\* number of runs (setInterval calls) explored
MaxRuns == 3
\* ticks explored past totalDuration when the interval is not cleared
MaxOverrun == 1
\* stopSession calls that may be suspended at an await at the same time
MaxStops == 1
\* calls into the audio library or to the backend that fail in one behaviour
MaxFaults == 1

\* ------------------------------------------------------- program constants
\* `duration_minutes * 60`
SecondsPerMinute == 60
\* `currentSequence.intensity / 120`
MaxExpectedDb == 120
\* useState(0.7), in hundredths
DefaultVolume == 70

\* -------------------------------------------------------------- the inputs
Phase(f, d, i) == [frequency |-> f, duration |-> d, intensity |-> i]

\* GET /api/mri-patterns: what the backend may return (MRIPattern).
\* duration_minutes is given in sixtieths of a minute.
\*  1: two phases filling 6 s
\*  2: three phases, one of length zero and loud enough for the volume to
\*     reach 1.0, all over before the scan is
\*  3: no phases
\*  4: zero duration
mriPatterns ==
  << [duration_minutes |-> 6,
      sequence_pattern |-> << Phase(1500, 4, 120), Phase(2000, 2, 60) >>],
     [duration_minutes |-> 3,
      sequence_pattern |-> << Phase(1000, 1, 100), Phase(2500, 0, 180),
                              Phase(3000, 1, 90) >>],
     [duration_minutes |-> 1,
      sequence_pattern |-> << >>],
     [duration_minutes |-> 0,
      sequence_pattern |-> << Phase(1500, 1, 120) >>] >>

PatternIds == DOMAIN mriPatterns

\* adjustVolume(newVolume: number): the values it is called with, in
\* hundredths.  Two are slider positions; the third lies beyond the slider's
\* maximumValue={1}, which is a prop of the control: the handler itself
\* takes any number.
Volumes == {50, DefaultVolume, 150}

Platforms == {"native", "web"}

Min(a, b) == IF a <= b THEN a ELSE b
Max(a, b) == IF a >= b THEN a ELSE b

\* ------------------------------------------------- startMRISimulation, pure
\* const totalDuration = selectedMRIPattern.duration_minutes * 60
totalDuration(p) ==
  (mriPatterns[p].duration_minutes * SecondsPerMinute) \div SecondsPerMinute

\* const sequences = selectedMRIPattern.sequence_pattern
sequences(p) == mriPatterns[p].sequence_pattern

\* A percentage as an exact fraction num/den.
Pct(n, d) == [num |-> n, den |-> d]
PctLeq(a, b) == a.num * b.den <= b.num * a.den
PctZero == Pct(0, 1)
PctFull == Pct(100, 1)

\* Variant without the Math.min: the plain quotient.
ScanProgressUnclamped(currentTime, total) == Pct(currentTime * 100, total)

\* setScanProgress(Math.min((currentTime / totalDuration) * 100, 100));
\* a zero totalDuration gives Infinity, which the min turns into 100.
ScanProgress(currentTime, total) ==
  IF total = 0 \/ currentTime * 100 >= 100 * total
    THEN PctFull
    ELSE Pct(currentTime * 100, total)

\* Variant without the Math.max: the plain difference.
TimeRemainingUnclamped(currentTime, total) == total - currentTime

\* setTimeRemaining(Math.max(totalDuration - currentTime, 0))
TimeRemaining(currentTime, total) == Max(total - currentTime, 0)

\* Variant without the test on sequenceIndex: the index moves whenever the
\* phase's duration has run out.
AdvancesUnbounded(seqs, sequenceIndex, sequenceStartTime, currentTime) ==
  currentTime - sequenceStartTime >= seqs[sequenceIndex + 1].duration

\* Variant with > in place of >=: the index moves one tick late.
AdvancesLate(seqs, sequenceIndex, sequenceStartTime, currentTime) ==
  /\ currentTime - sequenceStartTime > seqs[sequenceIndex + 1].duration
  /\ sequenceIndex < Len(seqs) - 1

\* if (sequenceElapsed >= currentSequence.duration
\*     && sequenceIndex < sequences.length - 1)
Advances(seqs, sequenceIndex, sequenceStartTime, currentTime) ==
  /\ currentTime - sequenceStartTime >= seqs[sequenceIndex + 1].duration
  /\ sequenceIndex < Len(seqs) - 1

\* `Phase ${sequenceIndex + 1}: ${currentSequence.frequency}Hz`
PhaseName(sequenceIndex, currentSequence) ==
  [number |-> sequenceIndex + 1, frequency |-> currentSequence.frequency]
\* setCurrentPhase('')
NoPhase == [number |-> 0, frequency |-> 0]

\* Math.min(volume * intensityFactor, 1.0), in units of 1/(100*120)
AdjustedVolume(volume, currentSequence) ==
  Min(volume * currentSequence.intensity, 100 * MaxExpectedDb)


\* ------------------------------------------------------------------ state
VARIABLES
  platform,            \* which of the two variants runs
  selectedMRIPattern,  \* useState: index into mriPatterns
  currentSession,      \* useState: session id, 0 for null
  isPlaying,           \* useState
  volume,              \* useState, hundredths
  scanProgress,        \* useState, a Pct
  timeRemaining,       \* useState
  currentPhase,        \* useState, a PhaseName or NoPhase
  sound,               \* useState `sound` / `audio`: object id, 0 for null
  isLoading,           \* useState
  progressTimer,       \* useRef: interval id, 0 for null
  timers,              \* the intervals created so far, by id
  starting,            \* the startSession call suspended at an await
  stops,               \* the stopSession calls suspended at an await
  faults,              \* failed library and backend calls so far
  lastEvent            \* what the last step did and sent out

vars == << platform, selectedMRIPattern, currentSession, isPlaying, volume,
           scanProgress, timeRemaining, currentPhase, sound, isLoading,
           progressTimer, timers, starting, stops, faults, lastEvent >>

NoStart == [pc |-> "none", pattern |-> 0, volume |-> 0, sound |-> 0,
            session |-> 0]
FreeStop == [pc |-> "free", sound |-> 0, session |-> 0, target |-> 0,
             by |-> "none"]

\* A call on an audio object, and a request to the backend.
Audio(op, target, value) == [op |-> op, target |-> target, value |-> value]
Request(op, id) == [op |-> op, id |-> id]

\* A cleared interval: its callback can never run again, its locals are
\* gone.
Cleared ==
  [live |-> FALSE, pattern |-> 0, volume |-> 0, sound |-> 0, session |-> 0,
   currentTime |-> 0, sequenceIndex |-> 0, sequenceStartTime |-> 0,
   progress |-> PctZero, remaining |-> 0, phase |-> NoPhase, sent |-> -1,
   autoStops |-> 0, stopped |-> FALSE]

\* What a step did: the handler that ran (op); for a tick, the interval
\* that fired (timer) and its record as the callback left it (tm); whether
\* the step called stopSession and whether a stopSession call returned in
\* it (and who had made that call); the audio calls and backend requests
\* it made, in order.
Event(op, t, tm, inv, ret, by, au, be) ==
  [op |-> op, timer |-> t, tm |-> tm, stopInvoked |-> inv,
   stopReturned |-> ret, by |-> by, audio |-> au, backend |-> be]
Quiet(op) == Event(op, 0, Cleared, FALSE, FALSE, "none", << >>, << >>)

\* State after mount and loadData: the first pattern is selected.
Init ==
  /\ platform \in Platforms
  /\ selectedMRIPattern = 1
  /\ currentSession = 0
  /\ isPlaying = FALSE
  /\ volume = DefaultVolume
  /\ scanProgress = PctZero
  /\ timeRemaining = 0
  /\ currentPhase = NoPhase
  /\ sound = 0
  /\ isLoading = FALSE
  /\ progressTimer = 0
  /\ timers = << >>
  /\ starting = NoStart
  /\ stops = [i \in 1..MaxStops |-> FreeStop]
  /\ faults = 0
  /\ lastEvent = Quiet("mount")

\* ------------------------------------------------------ pattern and volume
\* onPress={() => setSelectedMRIPattern(pattern)}; the cards are rendered
\* only while !isPlaying.
SelectPattern(p) ==
  /\ ~isPlaying
  /\ p # selectedMRIPattern
  /\ selectedMRIPattern' = p
  /\ lastEvent' = Quiet("input")
  /\ UNCHANGED << platform, currentSession, isPlaying, volume, scanProgress,
                  timeRemaining, currentPhase, sound, isLoading,
                  progressTimer, timers, starting, stops, faults >>

\* adjustVolume(newVolume): setVolume(newVolume); if (sound && isPlaying)
\* the new value goes to the audio object as it is.  The slider is
\* disabled while isPlaying.
adjustVolume(newVolume) ==
  /\ ~isPlaying
  /\ newVolume # volume
  /\ volume' = newVolume
  /\ lastEvent' =
       Event("input", 0, Cleared, FALSE, FALSE, "none",
             IF sound # 0 /\ isPlaying
               THEN << Audio("setVolume", sound, newVolume * MaxExpectedDb) >>
               ELSE << >>,
             << >>)
  /\ UNCHANGED << platform, selectedMRIPattern, currentSession, isPlaying,
                  scanProgress, timeRemaining, currentPhase, sound,
                  isLoading, progressTimer, timers, starting, stops,
                  faults >>

\* ------------------------------------------------------------ stopSession
\* clearInterval(progressTimer.current); clearing an id twice is harmless,
\* and the ref keeps the id.
clearInterval(ts, id) ==
  [i \in DOMAIN ts |-> IF i = id THEN Cleared ELSE ts[i]]

\* Another call may fail.
CanFail == faults < MaxFaults

\* A stopSession call made while interval id was current has returned.
MarkStopped(ts, id) ==
  [i \in DOMAIN ts |-> IF i = id /\ ts[i].live
                         THEN [ts[i] EXCEPT !.stopped = TRUE]
                         ELSE ts[i]]

\* Where a stopSession call stands when it next gives up control:
\*   "awaitAudio"  at `await sound.stopAsync()`
\*   "awaitFetch"  at `await fetch(.../complete)`
\*   "threw"       in the catch block, having skipped the rest of the try
\*   "done"        past the five state setters
\* if (currentSession) { await fetch(...) }
AfterAudio(sess) == IF sess # 0 THEN "awaitFetch" ELSE "done"

\* From the call.  index.tsx: `if (sound) await sound.stopAsync()`.
\* web.tsx: `if (audio) audio.pause()`, which runs at once and may throw.
CallOutcomes(snd, sess) ==
  IF snd # 0 /\ platform = "native"
    THEN {"awaitAudio"}
    ELSE (IF snd # 0 /\ CanFail THEN {"threw"} ELSE {})
           \cup {AfterAudio(sess)}

\* From the await of stopAsync: it resolved, or it rejected.
AudioOutcomes(sess) ==
  (IF CanFail THEN {"threw"} ELSE {}) \cup {AfterAudio(sess)}

\* From the await of the fetch: it resolved, or it rejected.
FetchOutcomes == (IF CanFail THEN {"threw"} ELSE {}) \cup {"done"}

Suspended(o) == o \in {"awaitAudio", "awaitFetch"}
Returned(o) == o \in {"threw", "done"}

FreeSlots == {i \in DOMAIN stops : stops[i].pc = "free"}
FirstFree == CHOOSE i \in FreeSlots : \A j \in FreeSlots : i <= j

\* One stretch of a stopSession call, from `stage` ("call", "awaitAudio" or
\* "awaitFetch") to outcome o.  k is the slot the call is kept in while
\* suspended; snd and sess are the `sound` and `currentSession` of the
\* closure, `by` who made the call ("user" or "timer") and target the
\* interval that was current then; ts, sp, tr, cp are the timers,
\* scanProgress, timeRemaining and currentPhase as the caller left them;
\* op, t, tm, au describe the caller's step so far.
stopSession(stage, o, k, snd, sess, by, target, ts, sp, tr, cp, op, t, tm, au) ==
  /\ timers' = IF stage # "awaitFetch" /\ o \in {"awaitFetch", "done"}
                 THEN clearInterval(ts, progressTimer)
                 ELSE IF Returned(o) THEN MarkStopped(ts, target)
                 ELSE ts
  /\ stops' = IF Suspended(o)
                THEN [stops EXCEPT ![k] = [pc |-> o, sound |-> snd,
                                           session |-> sess,
                                           target |-> target, by |-> by]]
                ELSE IF stage = "call" THEN stops
                ELSE [stops EXCEPT ![k] = FreeStop]
  /\ IF o = "done"
       THEN /\ isPlaying' = FALSE
            /\ scanProgress' = PctZero
            /\ timeRemaining' = 0
            /\ currentPhase' = NoPhase
            /\ currentSession' = 0
       ELSE /\ scanProgress' = sp
            /\ timeRemaining' = tr
            /\ currentPhase' = cp
            /\ UNCHANGED << isPlaying, currentSession >>
  /\ faults' = IF o = "threw" THEN faults + 1 ELSE faults
  /\ lastEvent' =
       Event(op, t, tm, stage = "call", Returned(o), by,
             IF stage = "call" /\ snd # 0
               THEN Append(au, Audio(IF platform = "native" THEN "stopAsync"
                                                             ELSE "pause",
                                     snd, 0))
               ELSE au,
             IF o = "awaitFetch" THEN << Request("complete", sess) >>
                                 ELSE << >>)

\* The stop button: onPress={isPlaying ? stopSession : startSession},
\* disabled={isLoading || ...}.  The closure is the latest render's.
StopPress ==
  /\ isPlaying
  /\ ~isLoading
  /\ \E o \in CallOutcomes(sound, currentSession) :
       /\ Suspended(o) => FreeSlots # {}
       /\ stopSession("call", o, IF Suspended(o) THEN FirstFree ELSE 0,
                      sound, currentSession, "user", progressTimer, timers,
                      scanProgress, timeRemaining, currentPhase,
                      "stopPress", 0, Cleared, << >>)
  /\ UNCHANGED << platform, selectedMRIPattern, volume, sound, isLoading,
                  progressTimer, starting >>

\* A suspended stopSession call goes on after its await.
StopResume(k) ==
  /\ stops[k].pc # "free"
  /\ \E o \in IF stops[k].pc = "awaitAudio"
                THEN AudioOutcomes(stops[k].session)
                ELSE FetchOutcomes :
       stopSession(stops[k].pc, o, k, stops[k].sound, stops[k].session,
                   stops[k].by, stops[k].target, timers, scanProgress,
                   timeRemaining, currentPhase, "stopResume", 0, Cleared,
                   << >>)
  /\ UNCHANGED << platform, selectedMRIPattern, volume, sound, isLoading,
                  progressTimer, starting >>

\* ----------------------------------------------------- startMRISimulation
\* The interval a call of startMRISimulation creates: the locals
\* currentTime, sequenceIndex and sequenceStartTime at 0, and what the
\* callback's closure holds (env is the render the start button was
\* pressed in).  progress, remaining, phase and sent record what the
\* latest tick of this interval emitted (sent = -1: no volume command);
\* autoStops counts the callback's calls of stopSession; stopped tells
\* that a stopSession call made while this interval was current returned.
NewTimer(env) ==
  [live |-> TRUE, pattern |-> env.pattern, volume |-> env.volume,
   sound |-> env.sound, session |-> env.session,
   currentTime |-> 0, sequenceIndex |-> 0, sequenceStartTime |-> 0,
   progress |-> PctZero, remaining |-> totalDuration(env.pattern),
   phase |-> NoPhase, sent |-> -1, autoStops |-> 0, stopped |-> FALSE]

\* Variant without setTimeRemaining(totalDuration) and setScanProgress(0).
startMRISimulationNoReset(env) ==
  /\ timers' = Append(timers, NewTimer(env))
  /\ progressTimer' = Len(timers) + 1
  /\ UNCHANGED << timeRemaining, scanProgress >>

\* progressTimer.current = setInterval(...): the previous id is overwritten,
\* not cleared.
startMRISimulation(env) ==
  /\ timers' = Append(timers, NewTimer(env))
  /\ progressTimer' = Len(timers) + 1
  /\ timeRemaining' = totalDuration(env.pattern)
  /\ scanProgress' = PctZero

\* ----------------------------------------------------------- startSession
\* The start button: setIsLoading(true), then `await fetch(POST sessions)`.
\* A new run is explored once the earlier stopSession calls have settled.
StartPress ==
  /\ ~isPlaying
  /\ ~isLoading
  /\ starting.pc = "none"
  /\ Len(timers) < MaxRuns
  /\ FreeSlots = DOMAIN stops
  /\ isLoading' = TRUE
  /\ starting' = [pc |-> "fetch", pattern |-> selectedMRIPattern,
                  volume |-> volume, sound |-> sound,
                  session |-> currentSession]
  /\ lastEvent' = Event("startPress", 0, Cleared, FALSE, FALSE, "none", << >>,
                        << Request("create", 0) >>)
  /\ UNCHANGED << platform, selectedMRIPattern, currentSession, isPlaying,
                  volume, scanProgress, timeRemaining, currentPhase, sound,
                  progressTimer, timers, stops, faults >>

\* Variant in which the catch block also calls setIsPlaying(true).
StartFetchFailedPlaying ==
  /\ starting.pc = "fetch"
  /\ CanFail
  /\ faults' = faults + 1
  /\ starting' = NoStart
  /\ isLoading' = FALSE
  /\ isPlaying' = TRUE
  /\ lastEvent' = Quiet("startFailed")
  /\ UNCHANGED << platform, selectedMRIPattern, currentSession, volume,
                  scanProgress, timeRemaining, currentPhase, sound,
                  progressTimer, timers, stops >>

\* The fetch (or sessionResponse.json()) rejected: catch, finally.
StartFetchFailed ==
  /\ starting.pc = "fetch"
  /\ CanFail
  /\ faults' = faults + 1
  /\ starting' = NoStart
  /\ isLoading' = FALSE
  /\ lastEvent' = Quiet("startFailed")
  /\ UNCHANGED << platform, selectedMRIPattern, currentSession, isPlaying,
                  volume, scanProgress, timeRemaining, currentPhase, sound,
                  progressTimer, timers, stops >>

\* index.tsx: setCurrentSession(sessionData), then loadAudioFile suspends at
\* `await sound.unloadAsync()` or `await Audio.Sound.createAsync(...)`.
StartFetchedNative ==
  /\ platform = "native"
  /\ starting.pc = "fetch"
  /\ currentSession' = Len(timers) + 1
  /\ starting' = [starting EXCEPT !.pc = "load"]
  /\ lastEvent' =
       Event("startFetched", 0, Cleared, FALSE, FALSE, "none",
             IF starting.sound # 0
               THEN << Audio("unloadAsync", starting.sound, 0) >>
               ELSE << >>,
             << >>)
  /\ UNCHANGED << platform, selectedMRIPattern, isPlaying, volume,
                  scanProgress, timeRemaining, currentPhase, sound,
                  isLoading, progressTimer, timers, stops, faults >>

\* index.tsx: loadAudioFile returns (loaded: setSound(newSound); not loaded:
\* its catch), then startMRISimulation(); setIsPlaying(true); finally.
StartLoadedNative(loaded) ==
  /\ platform = "native"
  /\ starting.pc = "load"
  /\ ~loaded => CanFail
  /\ faults' = IF loaded THEN faults ELSE faults + 1
  /\ sound' = IF loaded THEN Len(timers) + 1 ELSE sound
  /\ startMRISimulation(starting)
  /\ isPlaying' = TRUE
  /\ isLoading' = FALSE
  /\ starting' = NoStart
  /\ lastEvent' = Quiet("started")
  /\ UNCHANGED << platform, selectedMRIPattern, currentSession, volume,
                  currentPhase, stops >>

\* web.tsx: loadAudioFile has no await of its own, so from the fetch to the
\* finally block nothing else runs: setCurrentSession; loadAudioFile
\* (`if (audio) audio.pause()` may throw, as may the AudioContext calls);
\* startMRISimulation(); `if (audio) audio.play()`, which may throw and
\* then skips setIsPlaying(true).
StartFetchedWeb(loaded, played) ==
  /\ platform = "web"
  /\ starting.pc = "fetch"
  /\ starting.sound = 0 => played
  /\ LET failed == (IF loaded THEN 0 ELSE 1) + (IF played THEN 0 ELSE 1)
     IN /\ faults + failed <= MaxFaults
        /\ faults' = faults + failed
  /\ currentSession' = Len(timers) + 1
  /\ sound' = IF loaded THEN Len(timers) + 1 ELSE sound
  /\ startMRISimulation(starting)
  /\ isPlaying' = IF played THEN TRUE ELSE isPlaying
  /\ isLoading' = FALSE
  /\ starting' = NoStart
  /\ lastEvent' =
       Event("started", 0, Cleared, FALSE, FALSE, "none",
             IF starting.sound # 0
               THEN << Audio("pause", starting.sound, 0),
                       Audio("play", starting.sound, 0) >>
               ELSE << >>,
             << >>)
  /\ UNCHANGED << platform, selectedMRIPattern, volume, currentPhase, stops >>

\* ------------------------------------------------------ the interval callback
\* The callback up to `// Auto-stop when complete`, on the interval's
\* record: currentTime += 1, the two progress setters, and, when there are
\* sequences, the phase step, the label and the volume.  currentSequence is
\* read before the index moves and is used after it.
TickBody(tm) ==
  LET total == totalDuration(tm.pattern)
      seqs == sequences(tm.pattern)
      currentTime == tm.currentTime + 1
      has == Len(seqs) > 0
      currentSequence == seqs[tm.sequenceIndex + 1]
      adv == has /\ Advances(seqs, tm.sequenceIndex, tm.sequenceStartTime,
                             currentTime)
      sequenceIndex == IF adv THEN tm.sequenceIndex + 1 ELSE tm.sequenceIndex
  IN [tm EXCEPT
        !.currentTime = currentTime,
        !.progress = ScanProgress(currentTime, total),
        !.remaining = TimeRemaining(currentTime, total),
        !.sequenceIndex = sequenceIndex,
        !.sequenceStartTime = IF adv THEN currentTime ELSE @,
        !.phase = IF has THEN PhaseName(sequenceIndex, currentSequence)
                         ELSE @,
        !.sent = IF has /\ tm.sound # 0
                   THEN AdjustedVolume(tm.volume, currentSequence)
                   ELSE -1]

\* if (currentTime >= totalDuration) { stopSession(); }
Completes(tm) == tm.currentTime >= totalDuration(tm.pattern)

\* The volume command of a tick fails.  index.tsx: sound.setVolumeAsync(...)
\* is not awaited, so a rejection reaches nothing in the callback and a
\* firing goes on as if it had resolved.  web.tsx: the command is the
\* assignment `gainNode.gain.value = adjustedVolume` (or `audio.volume =
\* adjustedVolume`), outside any try block; when it throws, the exception
\* ends the callback there.
SetVolumeThrows(tm) == platform = "web" /\ tm.sent # -1 /\ CanFail

\* One firing of interval t.
Tick(t) ==
  /\ t \in DOMAIN timers
  /\ timers[t].live
  /\ timers[t].currentTime < totalDuration(timers[t].pattern) + MaxOverrun
  /\ LET tm == TickBody(timers[t])
         cp == IF Len(sequences(tm.pattern)) > 0 THEN tm.phase
                                                  ELSE currentPhase
         done == [tm EXCEPT !.autoStops = @ + 1]
         au == IF tm.sent # -1
                 THEN << Audio("setVolume", tm.sound, tm.sent) >>
                 ELSE << >>
         \* the callback without a stopSession call
         plain == /\ timers' = [timers EXCEPT ![t] = tm]
                  /\ scanProgress' = tm.progress
                  /\ timeRemaining' = tm.remaining
                  /\ currentPhase' = cp
                  /\ lastEvent' = Event("tick", t, tm, FALSE, FALSE, "none",
                                        au, << >>)
                  /\ UNCHANGED << isPlaying, currentSession, stops >>
     IN \/ /\ Completes(tm)
           /\ \E o \in CallOutcomes(tm.sound, tm.session) :
                /\ Suspended(o) => FreeSlots # {}
                /\ stopSession("call", o,
                               IF Suspended(o) THEN FirstFree ELSE 0,
                               tm.sound, tm.session, "timer", progressTimer,
                               [timers EXCEPT ![t] = done],
                               tm.progress, tm.remaining, cp, "tick", t,
                               done, au)
        \/ /\ ~Completes(tm)
           /\ plain
           /\ UNCHANGED faults
        \/ /\ SetVolumeThrows(tm)
           /\ plain
           /\ faults' = faults + 1
  /\ UNCHANGED << platform, selectedMRIPattern, volume, sound, isLoading,
                  progressTimer, starting >>

\* ------------------------------------------------------------ specification
Next ==
  \/ \E p \in PatternIds : SelectPattern(p)
  \/ \E v \in Volumes : adjustVolume(v)
  \/ StartPress
  \/ StartFetchFailed
  \/ StartFetchedNative
  \/ \E loaded \in BOOLEAN : StartLoadedNative(loaded)
  \/ \E loaded, played \in BOOLEAN : StartFetchedWeb(loaded, played)
  \/ StopPress
  \/ \E k \in 1..MaxStops : StopResume(k)
  \/ \E t \in 1..MaxRuns : Tick(t)

Spec == Init /\ [][Next]_vars

\* The device build alone (index.tsx).
InitNative == Init /\ platform = "native"

NextNative ==
  \/ \E p \in PatternIds : SelectPattern(p)
  \/ \E v \in Volumes : adjustVolume(v)
  \/ StartPress
  \/ StartFetchFailed
  \/ StartFetchedNative
  \/ \E loaded \in BOOLEAN : StartLoadedNative(loaded)
  \/ StopPress
  \/ \E k \in 1..MaxStops : StopResume(k)
  \/ \E t \in 1..MaxRuns : Tick(t)

SpecNative == InitNative /\ [][NextNative]_vars


\* ------------------------------------------------------------------ claims
\* The step just taken was a firing of an interval.
Ticked == lastEvent.op = "tick"
\* The interval of that firing, as its callback left it.
Fired == lastEvent.tm
\* The phase the index points at after that firing.
PhaseNow(tm) == sequences(tm.pattern)[tm.sequenceIndex + 1]

\* A stopSession call made by `who` is suspended at an await.
SuspendedBy(who) ==
  \E k \in DOMAIN stops : stops[k].pc # "free" /\ stops[k].by = who

\* A pattern the claims call valid: a positive duration and some phase.
ValidPattern(p) == totalDuration(p) > 0 /\ Len(sequences(p)) > 0

\* C1: for a valid pattern, once an interval has fired totalDuration times
\* the run is over: isPlaying is false, the interval is cleared, and the
\* callback has signalled completion (called stopSession) exactly once; no
\* later firing follows.  A completion still suspended at an await is
\* given time to return.
C1_CompletesExactlyOnce ==
  /\ \A t \in DOMAIN timers :
       (/\ timers[t].live
        /\ ValidPattern(timers[t].pattern)
        /\ timers[t].currentTime >= totalDuration(timers[t].pattern))
       => SuspendedBy("timer")
  /\ (Ticked /\ ValidPattern(Fired.pattern)
        /\ Fired.currentTime >= totalDuration(Fired.pattern))
     => /\ Fired.currentTime = totalDuration(Fired.pattern)
        /\ Fired.autoStops = 1
        /\ lastEvent.stopReturned
             => ~isPlaying /\ ~timers[lastEvent.timer].live

\* C2: at most one tick schedule is live at any time, so that a start
\* leaves no earlier interval firing.
C2_OneScheduleLive ==
  Cardinality({t \in DOMAIN timers : timers[t].live}) <= 1

\* C3: once a stopSession call has returned, the interval that was current
\* when the call was made never fires again.
C3_NoTickAfterStop ==
  [][lastEvent'.op = "tick" => ~timers[lastEvent'.timer].stopped]_vars

\* C4: a stopSession call made directly after a stopSession call has
\* returned, or while isPlaying is false, stops no audio, sends no
\* session-complete request and changes neither isPlaying nor
\* currentSession.
C4_StopIdempotent ==
  [][(lastEvent'.stopInvoked /\ (lastEvent.stopReturned \/ ~isPlaying))
       => /\ \A i \in DOMAIN lastEvent'.audio :
               lastEvent'.audio[i].op \notin {"stopAsync", "pause"}
          /\ lastEvent'.backend = << >>
          /\ UNCHANGED << isPlaying, currentSession >>]_vars

\* C5: the volume a tick sends to the audio object is
\* min(volume * intensity/120, 1.0) for the intensity of the phase that is
\* current after the tick's phase step.
C5_VolumeOfCurrentPhase ==
  (Ticked /\ Fired.sent # -1)
    => Fired.sent = AdjustedVolume(Fired.volume, PhaseNow(Fired))

\* C6: from one tick of a run to the next, sequenceIndex never decreases,
\* lies between 0 and sequences.length - 1, and stays on the last phase
\* once it is there.
C6_PhaseIndexMonotone ==
  [][(lastEvent'.op = "tick"
        /\ Len(sequences(lastEvent'.tm.pattern)) > 0)
       => LET before == timers[lastEvent'.timer].sequenceIndex
              after == lastEvent'.tm.sequenceIndex
              last == Len(sequences(lastEvent'.tm.pattern)) - 1
          IN /\ before <= after
             /\ 0 <= after /\ after <= last
             /\ before = last => after = last]_vars

\* A tick left the run on its last phase although that phase's duration
\* had run out.
C6_Witness ==
  /\ Ticked
  /\ Len(sequences(Fired.pattern)) > 1
  /\ Fired.sequenceIndex = Len(sequences(Fired.pattern)) - 1
  /\ Fired.currentTime - Fired.sequenceStartTime >= PhaseNow(Fired).duration

\* C7: over the ticks of one run the progress sent to the UI never
\* decreases, lies in [0, 100], and is 100 only on a tick at which
\* currentTime has reached totalDuration.
C7_ProgressMonotone ==
  [][lastEvent'.op = "tick"
       => LET before == timers[lastEvent'.timer].progress
              after == lastEvent'.tm.progress
          IN /\ PctLeq(before, after)
             /\ PctLeq(PctZero, after) /\ PctLeq(after, PctFull)
             /\ PctLeq(PctFull, after)
                  => lastEvent'.tm.currentTime
                       >= totalDuration(lastEvent'.tm.pattern)]_vars

\* The final tick of a run of several seconds sent 100, the tick before it
\* having sent less.
C7_Witness ==
  /\ Ticked
  /\ totalDuration(Fired.pattern) > 1
  /\ Fired.currentTime = totalDuration(Fired.pattern)
  /\ Fired.progress = PctFull

\* C8: at every tick the remaining time sent to the UI is
\* max(0, totalDuration - currentTime): it adds up with currentTime to
\* totalDuration until the run is over, and is 0, never negative, after.
C8_RemainingPlusElapsed ==
  Ticked
    => LET total == totalDuration(Fired.pattern)
       IN /\ Fired.remaining >= 0
          /\ Fired.currentTime <= total
               => Fired.remaining + Fired.currentTime = total
          /\ Fired.currentTime > total => Fired.remaining = 0

\* A tick past the end of a valid run sent 0.
C8_Witness ==
  /\ Ticked
  /\ ValidPattern(Fired.pattern)
  /\ Fired.currentTime > totalDuration(Fired.pattern)
  /\ Fired.remaining = 0

\* C9: the currentTime of a run over a valid pattern never exceeds
\* totalDuration.
C9_ElapsedBounded ==
  \A t \in DOMAIN timers :
    (timers[t].live /\ ValidPattern(timers[t].pattern))
      => timers[t].currentTime <= totalDuration(timers[t].pattern)

\* C10: a start with no phases or with totalDuration <= 0 begins no tick
\* schedule, sends no progress and leaves isPlaying false: every interval
\* that exists or fires runs a valid pattern.
C10_InvalidPatternRejected ==
  /\ \A t \in DOMAIN timers :
       timers[t].live => ValidPattern(timers[t].pattern)
  /\ Ticked => ValidPattern(Fired.pattern)

C12_RescaleWhilePlaying ==
  /\ (/\ isPlaying
      /\ sound # 0
      /\ progressTimer # 0
      /\ timers[progressTimer].live
      /\ Len(sequences(timers[progressTimer].pattern)) > 0)
     => \A v \in Volumes \ {volume} :
          ENABLED (/\ adjustVolume(v)
                   /\ lastEvent'.audio =
                        << Audio("setVolume", sound,
                                 AdjustedVolume(v,
                                   PhaseNow(timers[progressTimer]))) >>)
  /\ ~isPlaying
     => \A v \in Volumes \ {volume} :
          ~ ENABLED (/\ adjustVolume(v)
                     /\ (lastEvent'.audio # << >> \/ volume' # v))

C14_StopAlwaysIdle ==
  lastEvent.stopReturned
    => /\ ~isPlaying
       /\ progressTimer # 0 => ~timers[progressTimer].live
       /\ scanProgress = PctZero
       /\ timeRemaining = 0
       /\ currentPhase = NoPhase

\* C15: when startSession has ended with isPlaying true, the interval it
\* created is the current one and live, its currentTime, sequenceIndex and
\* sequenceStartTime are 0, and the progress shown is the initial one:
\* scanProgress 0 and timeRemaining = totalDuration of the pattern started.
C15_StartResets ==
  (lastEvent.op = "started" /\ isPlaying)
    => /\ progressTimer = Len(timers)
       /\ timers[progressTimer].live
       /\ timers[progressTimer].currentTime = 0
       /\ timers[progressTimer].sequenceIndex = 0
       /\ timers[progressTimer].sequenceStartTime = 0
       /\ scanProgress = PctZero
       /\ timeRemaining = totalDuration(timers[progressTimer].pattern)

\* A second run has just been started on a pattern of positive duration.
C15_Witness ==
  /\ lastEvent.op = "started"
  /\ isPlaying
  /\ Len(timers) = 2
  /\ timeRemaining > 0

\* C16: a failing volume command does not stop a tick from doing the rest
\* of its work: every firing at which currentTime has reached
\* totalDuration calls stopSession.
C16_CompletionCheckAlways ==
  (Ticked /\ Completes(Fired)) => lastEvent.stopInvoked

\* C17: the phase step is repeated until it no longer applies: after a
\* tick, the time spent in the phase the index points at is less than that
\* phase's duration unless the phase is the last one.
C17_PhaseStepRepeated ==
  (Ticked /\ Len(sequences(Fired.pattern)) > 0)
    => \/ Fired.sequenceIndex = Len(sequences(Fired.pattern)) - 1
       \/ Fired.currentTime - Fired.sequenceStartTime
            < PhaseNow(Fired).duration

\* C18: the label a tick sets is `Phase ${index + 1}: ${frequency}Hz` with
\* the index and the frequency of one and the same phase, the one the index
\* points at after the tick's phase step.
C18_LabelOfCurrentPhase ==
  (Ticked /\ Len(sequences(Fired.pattern)) > 0)
    => Fired.phase = PhaseName(Fired.sequenceIndex, PhaseNow(Fired))

\* C19: every tick of a run over a valid pattern, in the first run after
\* mount as in later ones, sends exactly one volume command to the audio
\* object, carrying the volume the tick computed.
C19_VolumeEveryTick ==
  (Ticked /\ ValidPattern(Fired.pattern))
    => /\ Fired.sent # -1
       /\ Cardinality({i \in DOMAIN lastEvent.audio :
                         /\ lastEvent.audio[i].op = "setVolume"
                         /\ lastEvent.audio[i].value = Fired.sent}) = 1

\* C20: on a tick at which the index moves, it moves by one and
\* sequenceStartTime becomes currentTime, so the time spent in the new phase
\* is 0; a phase of positive duration d is left exactly d ticks after
\* sequenceStartTime was set for it; on a tick at which the index stays,
\* sequenceStartTime stays.
C20_PhaseElapsedReset ==
  [][(lastEvent'.op = "tick"
        /\ Len(sequences(lastEvent'.tm.pattern)) > 0)
       => LET before == timers[lastEvent'.timer]
              after == lastEvent'.tm
              left == sequences(before.pattern)[before.sequenceIndex + 1]
          IN IF after.sequenceIndex # before.sequenceIndex
               THEN /\ after.sequenceIndex = before.sequenceIndex + 1
                    /\ after.sequenceStartTime = after.currentTime
                    /\ left.duration > 0
                         => after.currentTime - before.sequenceStartTime
                              = left.duration
               ELSE after.sequenceStartTime = before.sequenceStartTime]_vars

\* A tick moved the index off a phase of positive duration.
C20_Witness ==
  /\ Ticked
  /\ Fired.sequenceIndex > 0
  /\ Fired.sequenceStartTime = Fired.currentTime
  /\ sequences(Fired.pattern)[Fired.sequenceIndex].duration > 0

\* C21: isPlaying and the interval agree.  Whenever isPlaying is true and
\* no stopSession call is under way, the current interval is live; so a
\* stopSession call that cleared the interval and has returned has also set
\* isPlaying to false.
C21_PlayingHasLiveTimer ==
  (isPlaying /\ FreeSlots = DOMAIN stops)
    => /\ progressTimer # 0
       /\ timers[progressTimer].live

\* C22: the audio commands of a run go to the object loadAudioFile created
\* in that run's startSession (run n creates object n): the commands a tick
\* of interval n issues, volume and stop alike, and the play command of the
\* start that created interval n.
C22_AudioOfSameRun ==
  /\ Ticked
       => /\ Fired.sound \in {0, lastEvent.timer}
          /\ \A i \in DOMAIN lastEvent.audio :
               lastEvent.audio[i].target = lastEvent.timer
  /\ lastEvent.op = "started"
       => \A i \in DOMAIN lastEvent.audio :
            lastEvent.audio[i].op = "play"
              => lastEvent.audio[i].target = Len(timers)

\* C23: a run never ends without the backend having been told: isPlaying
\* goes from true to false only in the step that resumes a stopSession call
\* from its `await fetch(.../complete)`, the request having been sent for
\* the session of the run that ends.
C23_SessionMarkedComplete ==
  [][(isPlaying /\ ~isPlaying')
       => /\ lastEvent'.op = "stopResume"
          /\ \E k \in DOMAIN stops :
               /\ stops[k].pc = "awaitFetch"
               /\ stops'[k].pc = "free"
               /\ stops[k].session = currentSession
               /\ currentSession # 0]_vars

====
